---- MODULE Spec2Model ----
(***************************************************************************)
(* The lysis / neutralization scheduling core of                           *)
(* nucleomag_plasmid_purification.py: run(), lines 279-304, with the       *)
(* delay() helper (lines 142-146), the Task class (lines 148-155) and the  *)
(* heapq operations the core calls.                                        *)
(*                                                                         *)
(* Time is counted in ticks of 1/TicksPerSec second.  `now` is the value   *)
(* of time.time() - start_time; it never decreases.  Time passes while an  *)
(* equipment transfer runs, while protocol.delay blocks, and between two   *)
(* successive readings of the clock.                                       *)
(***************************************************************************)
EXTENDS Integers, Sequences, FiniteSets, TLC

\* ------------------------------------------------------------------ bounds
MaxSamples == 4        \* sample_count ranges over 1..MaxSamples (the code: 1..24)
MaxDelayLysis == 1     \* delay_lysis ranges up to MaxDelayLysis minutes (the code: 5)
TicksPerSec == 2       \* resolution of the modelled clock

\* ------------------------------------------------------- program constants
SecPerMin == 60        \* the factor of line 292 and the divisor of line 298
DelayLysisMin == 1     \* add_parameters: delay_lysis minimum
DelayLysisDefault == 3 \* add_parameters: delay_lysis default

\* wall time the lysis transfer of lines 290-291 can take, in ticks: none that
\* the clock resolves, one tick, a whole minute
LysisTicks == {0, 1, SecPerMin * TicksPerSec}
\* the lysis transfer of the worked scenarios: 50 s each time
ScenarioLysisTicks == {50 * TicksPerSec}
\* wall time the neutralization transfer of lines 286-287 / 303-304 can take
NeutralizationTicks == {0, 1}
\* time that can pass between the reading of line 297 and that of line 298.
\* Every other reading directly follows a transfer, a wait or the reading
\* before it, and is taken at the time that one ended.
ReadTicks == {0, 1}

VARIABLES
    sample_count,   \* protocol.params.sample_count
    delay_lysis,    \* protocol.params.delay_lysis (minutes)
    debug,          \* protocol.params.debug
    pc,             \* position of run() in lines 279-304
    i,              \* loop variable of line 281
    now,            \* time.time() - start_time at the latest reading, in ticks
    task_queue,     \* the heap list of line 279
    task,           \* the Task popped at line 283 / 300 (NoTask when none)
    log             \* history: what the core has done so far, in order

vars == <<sample_count, delay_lysis, debug, pc, i, now, task_queue, task, log>>

NoTask == [time_to_execute |-> -1, action |-> "none", sample_id |-> -1]

\* a Task that numbers the samples from 1
TaskOneBased(time_to_execute, action, sample_id) ==
    [time_to_execute |-> time_to_execute, action |-> action,
     sample_id |-> sample_id + 1]

\* class Task, lines 148-152
Task(time_to_execute, action, sample_id) ==
    [time_to_execute |-> time_to_execute, action |-> action, sample_id |-> sample_id]

\* the comparison turned round: a max-heap
LtReversed(self, other) == self.time_to_execute > other.time_to_execute

\* Task.__lt__, lines 154-155
Lt(self, other) == self.time_to_execute < other.time_to_execute

\* ------------------------------------------------------------------ heapq
\* heapq._siftdown(heap, startpos, pos): positions are 0-based as in Python,
\* heap[p + 1] is Python's heap[p].
RECURSIVE SiftDownLoop(_, _, _, _)
SiftDownLoop(heap, startpos, pos, newitem) ==
    IF pos > startpos /\ Lt(newitem, heap[((pos - 1) \div 2) + 1])
    THEN SiftDownLoop([heap EXCEPT ![pos + 1] = heap[((pos - 1) \div 2) + 1]],
                      startpos, (pos - 1) \div 2, newitem)
    ELSE [heap EXCEPT ![pos + 1] = newitem]

siftdown(heap, startpos, pos) == SiftDownLoop(heap, startpos, pos, heap[pos + 1])

\* heapq._siftup(heap, pos): bubble the smaller child up until a leaf, the
\* right child being taken unless the left one is strictly smaller; then
\* sift the displaced item down from the leaf.
RECURSIVE SiftUpLoop(_, _, _, _)
SiftUpLoop(heap, startpos, pos, newitem) ==
    LET endpos   == Len(heap)
        leftpos  == 2 * pos + 1
        rightpos == leftpos + 1
        childpos == IF rightpos < endpos /\ ~Lt(heap[leftpos + 1], heap[rightpos + 1])
                    THEN rightpos ELSE leftpos
    IN  IF leftpos < endpos
        THEN SiftUpLoop([heap EXCEPT ![pos + 1] = heap[childpos + 1]],
                        startpos, childpos, newitem)
        ELSE siftdown([heap EXCEPT ![pos + 1] = newitem], startpos, pos)

siftup(heap, pos) == SiftUpLoop(heap, pos, pos, heap[pos + 1])

\* heapq.heappush(heap, item), line 293
heappush(heap, item) == siftdown(Append(heap, item), 0, Len(heap))

\* heapq.heappop(heap), lines 283 and 300: the item returned ...
heappop_item(heap) == heap[1]

\* a peek taken for a pop: the heap is left as it was
heappop_heap_peek(heap) == heap

\* ... and the heap left behind
heappop_heap(heap) ==
    LET lastelt == heap[Len(heap)]
        rest    == SubSeq(heap, 1, Len(heap) - 1)
    IN  IF rest = <<>> THEN rest ELSE siftup([rest EXCEPT ![1] = lastelt], 0)

\* a rounding towards zero in place of math.ceil
CeilSecTruncated(ticks) == IF ticks >= 0 THEN ticks \div TicksPerSec
                           ELSE -((-ticks) \div TicksPerSec)

\* ------------------------------------------------------------ arithmetic
\* math.ceil of a number of ticks taken as seconds: whole seconds, rounded up
CeilSec(ticks) == -((-ticks) \div TicksPerSec)

\* delay_lysis taken as seconds: line 292 without its *60
LysisDelayTicksAsSeconds(d) == d * TicksPerSec

\* line 292: protocol.params.delay_lysis*60, in ticks
LysisDelayTicks(d) == d * SecPerMin * TicksPerSec

\* a due time counted from the start of the run: line 292 without the clock
NeutralizationTimeFromStart(elapsed, d) == LysisDelayTicks(d)

\* line 292: neutralization_time
NeutralizationTime(elapsed, d) == elapsed + LysisDelayTicks(d)

\* line 282: the test of the phase 1 drain loop
DueInPhase1(t, elapsed) == t < elapsed

\* the final drain's test with the boundary on the wrong side
NotYetDueOrNow(t, elapsed) == t >= elapsed

\* line 297: the test of the final drain
NotYetDue(t, elapsed) == t > elapsed

\* line 298: the argument handed to delay(), math.ceil(...)/60 minutes, kept
\* as its numerator in seconds
DelaySeconds(t, elapsed) == CeilSec(t - elapsed)

\* a delay() that returns at once
BlockedTicksNone(seconds, dbg) == 0

\* the test of line 143 without its negation
DelayBlocksInverted(dbg) == dbg

\* delay(), lines 142-146: protocol.delay is called unless debug is set; it
\* blocks for the duration asked (not at all for a duration below zero)
DelayBlocks(dbg) == ~dbg
BlockedTicks(seconds, dbg) ==
    IF DelayBlocks(dbg) /\ seconds > 0 THEN seconds * TicksPerSec ELSE 0

\* ---------------------------------------------------------------- history
Event(ev, sample, at, val) == [ev |-> ev, sample |-> sample, at |-> at, val |-> val]

\* ------------------------------------------------------------------- Init
Params(lowest) ==
    /\ sample_count \in 1..MaxSamples
    /\ delay_lysis \in lowest..MaxDelayLysis
    /\ debug \in BOOLEAN

\* lines 279-281
Start ==
    /\ pc = "drain"
    /\ i = 0
    /\ now = 0
    /\ task_queue = <<>>
    /\ task = NoTask
    /\ log = <<>>

Init == Params(DelayLysisMin) /\ Start

\* run() itself never checks delay_lysis: the range 1..5 is the parameter
\* declaration's.  The zero-delay scenario is run() entered with any
\* delay_lysis from 0 up.
InitAnyDelay == Params(0) /\ Start

\* the worked scenarios: any delay_lysis from the minimum up to the default
InitScenario ==
    /\ sample_count \in 1..MaxSamples
    /\ delay_lysis \in DelayLysisMin..DelayLysisDefault
    /\ debug \in BOOLEAN
    /\ Start

\* ---------------------------------------------------------------- actions
\* the loop bound one short: the last sample is never reached
NextSampleOneShort(k) == IF k < sample_count - 1 THEN "drain" ELSE "final"

\* line 281: the for loop moves on to the next sample or ends
NextSample(k) == IF k < sample_count THEN "drain" ELSE "final"

\* a drain that waits for the earliest task instead of skipping it
DrainCheckBlocking ==
    /\ pc = "drain"
    /\ IF task_queue = <<>>
       THEN /\ pc' = "lysis"
            /\ UNCHANGED <<now, task_queue, task, log>>
       ELSE LET head    == task_queue[1]
                seconds == DelaySeconds(head.time_to_execute, now)
            IN  /\ now' = now + BlockedTicks(seconds, debug)
                /\ task' = heappop_item(task_queue)
                /\ task_queue' = heappop_heap(task_queue)
                /\ log' = log \o <<Event("delay", head.sample_id, now, seconds),
                                   Event("pop", head.sample_id, now',
                                         head.time_to_execute)>>
                /\ pc' = "neutralize1"
    /\ UNCHANGED <<sample_count, delay_lysis, debug, i>>

\* lines 282-283: the drain test; a due task is popped
DrainCheck ==
    /\ pc = "drain"
    /\ IF task_queue = <<>>
       THEN /\ pc' = "lysis"
            /\ UNCHANGED <<now, task_queue, task, log>>
       ELSE IF DueInPhase1(task_queue[1].time_to_execute, now)
            THEN /\ task' = heappop_item(task_queue)
                 /\ task_queue' = heappop_heap(task_queue)
                 /\ log' = Append(log, Event("pop", task'.sample_id, now,
                                             task'.time_to_execute))
                 /\ pc' = "neutralize1"
                 /\ UNCHANGED now
            ELSE /\ pc' = "lysis"
                 /\ UNCHANGED <<now, task_queue, task, log>>
    /\ UNCHANGED <<sample_count, delay_lysis, debug, i>>

\* lines 284-287: the deferred transfer of a task drained in phase 1
Neutralize1 ==
    /\ pc = "neutralize1"
    /\ \E dur \in NeutralizationTicks :
        /\ now' = now + dur
        /\ log' = Append(log, Event("def", task.sample_id, now, dur))
    /\ pc' = "drain"
    /\ UNCHANGED <<sample_count, delay_lysis, debug, i, task_queue, task>>

\* lines 290-291: the immediate transfer of sample i, taking one of `ticks`
LysisTaking(ticks) ==
    /\ pc = "lysis"
    /\ \E dur \in ticks :
        /\ now' = now + dur
        /\ log' = Append(log, Event("imm", i, now, dur))
    /\ pc' = "push"
    /\ UNCHANGED <<sample_count, delay_lysis, debug, i, task_queue, task>>

Lysis == LysisTaking(LysisTicks)

\* the same transfer in the worked scenarios
ScenarioLysis == LysisTaking(ScenarioLysisTicks)

\* lines 292-293: the due time is computed and the task pushed
Push ==
    /\ pc = "push"
    /\ LET t == NeutralizationTime(now, delay_lysis)
       IN  /\ task_queue' = heappush(task_queue, Task(t, "add_neutralization", i))
           /\ log' = Append(log, Event("push", i, now, t))
    /\ i' = i + 1
    /\ pc' = NextSample(i + 1)
    /\ UNCHANGED <<sample_count, delay_lysis, debug, now, task>>

\* lines 296-297, and line 300 when the earliest task is due
FinalCheck ==
    /\ pc = "final"
    /\ IF task_queue = <<>>
       THEN /\ pc' = "done"
            /\ UNCHANGED <<now, task_queue, task, log>>
       ELSE IF NotYetDue(task_queue[1].time_to_execute, now)
            THEN /\ pc' = "wait"
                 /\ UNCHANGED <<now, task_queue, task, log>>
            ELSE /\ task' = heappop_item(task_queue)
                 /\ task_queue' = heappop_heap(task_queue)
                 /\ log' = Append(log, Event("pop", task'.sample_id, now,
                                             task'.time_to_execute))
                 /\ pc' = "neutralize2"
                 /\ UNCHANGED now
    /\ UNCHANGED <<sample_count, delay_lysis, debug, i>>

\* line 298, then line 300: the clock is read again, delay() is called with
\* the rounded remainder, and the earliest task is popped
Wait ==
    /\ pc = "wait"
    /\ \E a \in ReadTicks :
        LET read    == now + a
            seconds == DelaySeconds(task_queue[1].time_to_execute, read)
            after   == read + BlockedTicks(seconds, debug)
        IN  /\ now' = after
            /\ task' = heappop_item(task_queue)
            /\ task_queue' = heappop_heap(task_queue)
            /\ log' = log \o <<Event("read", task'.sample_id, read,
                                     task'.time_to_execute),
                               Event("delay", task'.sample_id, now, seconds),
                               Event("pop", task'.sample_id, after,
                                     task'.time_to_execute)>>
    /\ pc' = "neutralize2"
    /\ UNCHANGED <<sample_count, delay_lysis, debug, i>>

\* lines 301-304: the deferred transfer of a task of the final drain
Neutralize2 ==
    /\ pc = "neutralize2"
    /\ \E dur \in NeutralizationTicks :
        /\ now' = now + dur
        /\ log' = Append(log, Event("def", task.sample_id, now, dur))
    /\ pc' = "final"
    /\ UNCHANGED <<sample_count, delay_lysis, debug, i, task_queue, task>>

\* the failed transfer is caught and tried again
TransferFailsAndRetries ==
    /\ pc \in {"lysis", "neutralize1", "neutralize2"}
    /\ Len(log) < 6 * sample_count
    /\ log' = Append(log, Event("fail", IF pc = "lysis" THEN i ELSE task.sample_id, now, 0))
    /\ UNCHANGED <<sample_count, delay_lysis, debug, pc, i, now, task_queue, task>>

\* a transfer raises (no tip, no liquid, a mechanical fault): nothing in
\* run() catches it, so lines 279-304 are left at once
TransferFails ==
    /\ pc \in {"lysis", "neutralize1", "neutralize2"}
    /\ log' = Append(log, Event("fail", IF pc = "lysis" THEN i ELSE task.sample_id, now, 0))
    /\ pc' = "failed"
    /\ UNCHANGED <<sample_count, delay_lysis, debug, i, now, task_queue, task>>

Next ==
    \/ DrainCheck
    \/ Neutralize1
    \/ Lysis
    \/ Push
    \/ FinalCheck
    \/ Wait
    \/ Neutralize2
    \/ TransferFails

Spec == Init /\ [][Next]_vars

\* run() is one thread that keeps executing until it returns or raises
FairSpec == Spec /\ WF_vars(Next)

\* run() entered with a delay_lysis that may be 0
SpecAnyDelay == InitAnyDelay /\ [][Next]_vars

\* run() in the worked scenarios: every lysis transfer takes 50 s
NextScenario ==
    \/ DrainCheck
    \/ Neutralize1
    \/ ScenarioLysis
    \/ Push
    \/ FinalCheck
    \/ Wait
    \/ Neutralize2
    \/ TransferFails

SpecScenario == InitScenario /\ [][NextScenario]_vars

\* ============================================================ properties
\* What the history says
Idx == 1..Len(log)
Samples == 0..(sample_count - 1)
\* the positions of the events of one kind
At(ev) == {k \in Idx : log[k].ev = ev}
Count(ev, s) == Cardinality({k \in At(ev) : log[k].sample = s})
\* the event at position k happened during the issue loop (phase 1)
InPhase1(k) == Cardinality({j \in At("push") : j <= k}) < sample_count
\* samples whose immediate action succeeded / whose deferred action succeeded
Lysed == {log[k].sample : k \in At("imm")}
Neutralized == {log[k].sample : k \in At("def")}
Queued == {task_queue[k].sample_id : k \in 1..Len(task_queue)}
Finished == pc \in {"done", "failed"}

\* C1: a run in which no transfer fails terminates, and when it has, every
\* sample 0..N-1 has had exactly one immediate and exactly one deferred
\* action and the queue is empty.
C1_AllServedOnce ==
    pc = "done" =>
        /\ \A s \in Samples : Count("imm", s) = 1 /\ Count("def", s) = 1
        /\ \A k \in At("imm") \cup At("def") : log[k].sample \in Samples
        /\ task_queue = <<>>
C1_RunCompletes == []C1_AllServedOnce /\ <>Finished
\* a completed run of the largest batch with deferred actions in both phases
C1_Witness ==
    /\ pc = "done"
    /\ sample_count = MaxSamples
    /\ \E k \in At("def") : InPhase1(k)
    /\ \E k \in At("def") : ~InPhase1(k)

\* C2: no early execution: a deferred task pushed at elapsed time t with fixed
\* delay d is executed only at an elapsed time >= t + d, whatever the debug
\* flag, in a phase 1 drain as in the final drain.
C2_NoEarlyExecution ==
    \A k \in At("def") :
        \E j \in At("push") :
            /\ j < k
            /\ log[j].sample = log[k].sample
            /\ log[k].at >= log[j].at + LysisDelayTicks(delay_lysis)

\* C3: drain-before-issue: when the drain check of sample i has finished and
\* the immediate action of sample i is about to be issued, no queued task is
\* due, due meaning due_time <= elapsed time, equality included.
C3_DrainBeforeIssue ==
    pc = "lysis" =>
        \A k \in 1..Len(task_queue) : ~(task_queue[k].time_to_execute <= now)

\* C4: due-time ordering: of two tasks pushed with due times t1 < t2, the one
\* with t1 is executed before the one with t2, in whichever phase each runs.
C4_DueTimeOrder ==
    LET pushes == At("push")
        defs   == At("def")
    IN  \A p1, p2 \in pushes :
            log[p1].val < log[p2].val =>
                \A k \in defs :
                    log[k].sample = log[p2].sample =>
                        \E e \in defs : e < k /\ log[e].sample = log[p1].sample
\* two tasks with different due times were queued together and both executed,
\* the earlier-due one in a phase 1 drain
C4_Witness ==
    \E p1, p2 \in At("push") : \E e, k \in At("def") :
        /\ log[p1].val < log[p2].val
        /\ log[e].sample = log[p1].sample
        /\ log[k].sample = log[p2].sample
        /\ p2 < e
        /\ e < k
        /\ InPhase1(e)

\* C5: tie-break by insertion order: tasks with equal due_time that are in the
\* queue together are popped in the order they were pushed, however many.
\* Tasks are pushed in ascending sample_id, so of two pops with the same due
\* time the earlier one must carry the smaller sample_id.
C5_TieBreakInsertionOrder ==
    LET pops == At("pop")
    IN  \A a, b \in pops :
            (a < b /\ log[a].val = log[b].val) => log[a].sample < log[b].sample

\* C6: at most one pending task per sample: the queue never holds two tasks of
\* one sample_id; a task of sample i is pushed once, right after the immediate
\* action of sample i, and popped once.
C6_OnePendingTaskPerSample ==
    LET pushes == At("push")
        pops   == At("pop")
    IN  /\ \A a, b \in 1..Len(task_queue) :
              task_queue[a].sample_id = task_queue[b].sample_id => a = b
        /\ \A a, b \in pushes : log[a].sample = log[b].sample => a = b
        /\ \A a, b \in pops : log[a].sample = log[b].sample => a = b
        /\ \A k \in pushes :
              k > 1 /\ log[k - 1].ev = "imm" /\ log[k - 1].sample = log[k].sample
        /\ \A k \in At("imm") :
              k < Len(log) => log[k + 1].ev = "push" /\ log[k + 1].sample = log[k].sample
        /\ \A k \in pops : \E j \in pushes : j < k /\ log[j].sample = log[k].sample
        /\ pc = "done" =>
              /\ {log[k].sample : k \in pushes} = Samples
              /\ {log[k].sample : k \in pops} = Samples
\* several tasks are pending while an earlier one has already been popped
C6_Witness ==
    /\ Len(task_queue) >= 2
    /\ At("pop") # {}

\* C7: diagnosable failure state: when a transfer has failed, the samples that
\* had their immediate action and never their deferred action are exactly the
\* samples of the tasks still in the queue.
C7_QueueTellsUnserved == pc = "failed" => (Lysed \ Neutralized) = Queued

\* C8: fail-fast abort: a failed transfer is the last thing the core does: no
\* transfer, delay, push or pop follows it, and the failed action is not tried
\* again.
C8_FailFast ==
    /\ \A k \in At("fail") : k = Len(log) /\ pc = "failed"
    /\ pc = "failed" => log # <<>> /\ log[Len(log)].ev = "fail"
\* a deferred transfer failed with tasks still queued and samples not yet issued
C8_Witness ==
    /\ pc = "failed"
    /\ task_queue # <<>>
    /\ i < sample_count
    /\ \E k \in At("pop") : log[k].sample = log[Len(log)].sample

\* C9: phase 1 never blocks: delay() is called only in the final drain, after
\* every immediate action, and only for a task whose due time was still in the
\* future at the test of line 297.
C9_OnlyFinalDrainWaits ==
    LET delays == At("delay")
    IN  /\ \A k \in delays :
              k < Len(log) /\ log[k + 1].ev = "pop" /\ log[k + 1].val > log[k].at
        /\ delays # {} =>
              LET issued == At("imm") \cup At("push")
              IN  /\ {log[j].sample : j \in issued} = Samples
                  /\ \A k \in delays : \A j \in issued : j < k
\* phase 1 drained a task without waiting, and the final drain waited
C9_Witness ==
    /\ \E k \in At("pop") : InPhase1(k)
    /\ At("delay") # {}

\* C10: zero-delay scenario: with a fixed delay of 0 the final drain never
\* calls the blocking wait: every task is due when it is peeked, in a phase 1
\* drain as in the final drain.
C10_ZeroDelayNeverWaits ==
    delay_lysis = 0 =>
        /\ pc # "wait"
        /\ At("delay") = {}
        /\ \A k \in At("pop") : log[k].val <= log[k].at
\* a completed zero-delay run with tasks popped in both phases
C10_Witness ==
    /\ delay_lysis = 0
    /\ pc = "done"
    /\ \E k \in At("pop") : InPhase1(k)
    /\ \E k \in At("pop") : ~InPhase1(k)

\* C11: the debug flag zeroes every delay of the run, the fixed lysis delay
\* of the due time included: with debug set each task is due at the elapsed
\* time at which it is pushed, and no wait of a positive length is asked for.
C11_DebugZeroesDelays ==
    debug =>
        /\ \A k \in At("push") : log[k].val = log[k].at
        /\ \A k \in At("delay") : log[k].val = 0

QuietReads == \A k \in At("read") : log[k].at = log[k + 1].at
\* the equipment and delay events of the run so far, in order
Steps == SelectSeq(log, LAMBDA e : e.ev \in {"imm", "delay", "def", "fail"})
\* the plain sequence for one sample: lysis, wait, neutralization
PlainSteps == <<"imm", "delay", "def">>

\* C13: single-sample equivalence: with sample_count = 1, a delay of 180 s and
\* debug off (the clock advancing only during transfers and waits) phase 1
\* drains nothing, and the equipment and delay events are those of the plain
\* sequence: lysis of sample 0, one wait of 180 s that blocks for 180 s,
\* neutralization of sample 0, 180 s after the lysis ended.
C13_SingleSampleEquivalence ==
    (sample_count = 1 /\ delay_lysis = DelayLysisDefault /\ ~debug /\ QuietReads) =>
        /\ \A k \in At("pop") : ~InPhase1(k)
        /\ Len(Steps) <= Len(PlainSteps)
        /\ \A k \in 1..Len(Steps) :
              \/ Steps[k].ev = PlainSteps[k] /\ Steps[k].sample = 0
              \/ Steps[k].ev = "fail" /\ k = Len(Steps)
        /\ \A k \in At("delay") :
              /\ log[k].val = 180
              /\ log[k + 1].at = log[k].at + 180 * TicksPerSec
              /\ \E j \in At("imm") : log[k].at = log[j].at + log[j].val
        /\ \A k \in At("def") :
              \E j \in At("imm") :
                  log[k].at = log[j].at + log[j].val + 180 * TicksPerSec
        /\ pc = "done" => Len(Steps) = Len(PlainSteps)
\* the single-sample run of 180 s completed
C13_Witness ==
    /\ sample_count = 1 /\ delay_lysis = DelayLysisDefault /\ ~debug /\ QuietReads
    /\ pc = "done"
    /\ At("delay") # {} /\ At("def") # {}

\* the three-sample scenario: three samples, a delay of 120 s, every lysis
\* transfer taking 50 s
ThreeSamples ==
    /\ sample_count = 3
    /\ delay_lysis * SecPerMin = 120
    /\ \A k \in At("imm") : log[k].val = 50 * TicksPerSec
\* the samples of the neutralizations done so far, in the order done
DeferredOrder == [k \in 1..Cardinality(At("def")) |->
                     log[CHOOSE j \in At("def") :
                             Cardinality({m \in At("def") : m <= j}) = k].sample]

\* C14: three-sample scenario: no task is due at any drain check of phase 1
\* (each is pushed 120 s ahead and popped only after the third push), and the
\* three neutralizations are done in the final drain in the order 0, 1, 2.
C14_ThreeSampleScenario ==
    ThreeSamples =>
        /\ pc # "neutralize1"
        /\ \A k \in At("pop") \cup At("def") : ~InPhase1(k)
        /\ \A k \in At("imm") : \A j \in At("push") :
              j < k => log[j].val > log[k].at
        /\ \A k \in 1..Len(DeferredOrder) : DeferredOrder[k] = k - 1
        /\ pc = "done" => Len(DeferredOrder) = 3
\* the three-sample run completed, all three neutralizations done
C14_Witness ==
    /\ ThreeSamples
    /\ pc = "done"
    /\ Neutralized = {0, 1, 2}

\* C15: per-sample lifecycle: the lysis transfers are issued for the samples
\* 0, 1, 2, ... in this order, none skipped or repeated; a sample is pushed
\* once, after its lysis completed, and neutralized at most once, after its
\* push (and so not before its lysis completed); no sample goes back.
C15_SampleLifecycle ==
    LET imms   == At("imm")
        pushes == At("push")
        defs   == At("def")
    IN  /\ \A k \in imms : log[k].sample = Cardinality({j \in imms : j < k})
        /\ \A k \in pushes :
              /\ log[k - 1].ev = "imm" /\ log[k - 1].sample = log[k].sample
              /\ log[k].at = log[k - 1].at + log[k - 1].val
        /\ \A k \in defs :
              /\ \E j \in pushes :
                    j < k /\ log[j].sample = log[k].sample /\ log[j].at <= log[k].at
              /\ \A j \in defs : log[j].sample = log[k].sample => j = k
        /\ Neutralized \cap Queued = {}
        /\ Neutralized \cup Queued \subseteq Lysed
        /\ Lysed \subseteq Samples
\* one sample neutralized, one waiting in the queue, one not yet lysed
C15_Witness ==
    /\ Neutralized # {}
    /\ Queued # {}
    /\ Lysed # Samples

RECURSIVE SumVal(_)
\* the sum of the values of the events at the indices ks
SumVal(ks) ==
    IF ks = {} THEN 0
    ELSE LET k == CHOOSE x \in ks : TRUE IN log[k].val + SumVal(ks \ {k})

\* C16: bounded idle time: with debug off (every wait blocks for the duration
\* asked) the durations asked of delay() in one run add up to at most one
\* delay_lysis, plus less than a second of rounding for each wait.
C16_BoundedIdleTime ==
    ~debug =>
        SumVal(At("delay")) * TicksPerSec
            <= LysisDelayTicks(delay_lysis)
                   + Cardinality(At("delay")) * (TicksPerSec - 1)
\* a run that waited for more than one task, a whole delay_lysis in all
C16_Witness ==
    /\ ~debug
    /\ Cardinality(At("delay")) > 1
    /\ SumVal(At("delay")) * TicksPerSec >= LysisDelayTicks(delay_lysis)

\* the final drain is about to start: the last push was the last event
Phase2Starts == pc = "final" /\ Len(log) > 0 /\ log[Len(log)].ev = "push"

\* C17: inline execution of early-due tasks: a task of sample j whose due time
\* is at or before the elapsed time of the drain check of a later sample i
\* (due_time <= elapsed) is neutralized before the lysis of sample i, no wait
\* having been asked for, and is not in the queue when the final drain starts.
C17_InlineExecution ==
    LET imms == At("imm")
    IN  /\ \A k \in imms : \A j \in At("push") :
              (j < k /\ log[j].val <= log[k].at) =>
                  \E e \in At("def") : e < k /\ log[e].sample = log[j].sample
        /\ \A k \in imms : \A w \in At("delay") : k < w
        /\ Phase2Starts =>
              \A q \in 1..Len(task_queue) : \A k \in imms :
                  task_queue[q].sample_id < log[k].sample =>
                      task_queue[q].time_to_execute > log[k].at

\* the first wait the final drain asked for
FirstWait == log[CHOOSE k \in At("delay") : \A j \in At("delay") : k <= j]

\* C18 (as stated): three-sample wait figure: in the three-sample scenario
\* with debug off (the clock advancing only during transfers and waits) the
\* wait before the first neutralization of the final drain is 70 s.
C18_FirstWaitIs70 ==
    (ThreeSamples /\ ~debug /\ QuietReads /\ At("delay") # {}) =>
        FirstWait.val = 70

\* C18: three-sample wait figure: in the three-sample scenario with debug off
\* (the clock advancing only during transfers and waits) the final drain
\* starts at 150 s, when the third lysis ends, and the wait asked for before
\* the first neutralization, that of sample 0 due at 170 s, is 20 s.
C18_FirstWaitIs20 ==
    (ThreeSamples /\ ~debug /\ QuietReads) =>
        /\ pc \in {"neutralize2", "done"} => At("delay") # {}
        /\ At("delay") # {} =>
              /\ FirstWait.val = 20
              /\ FirstWait.sample = 0
              /\ FirstWait.at = 150 * TicksPerSec
              /\ \A k \in At("def") : log[k].at >= 170 * TicksPerSec
\* the three-sample run with debug off completed after its waits
C18_Witness ==
    /\ ThreeSamples /\ ~debug /\ QuietReads
    /\ pc = "done"
    /\ At("delay") # {}

\* C19: when the final drain starts the queue is not empty: it holds the task
\* of the last sample, pushed after the last drain check of phase 1, so the
\* last sample is popped and neutralized in the final drain and never in a
\* phase 1 drain, for every sample_count and with a delay_lysis of 0 too.
C19_LastSampleInFinalDrain ==
    /\ Phase2Starts =>
          /\ task_queue # <<>>
          /\ sample_count - 1 \in Queued
          /\ log[Len(log)].sample = sample_count - 1
    /\ \A k \in At("pop") \cup At("def") :
          log[k].sample = sample_count - 1 => ~InPhase1(k)
    /\ pc = "neutralize1" => task.sample_id # sample_count - 1
\* a run without delay whose last sample was neutralized in the final drain,
\* after earlier samples were neutralized in phase 1
C19_Witness ==
    /\ delay_lysis = 0
    /\ pc = "done"
    /\ \E k \in At("def") : InPhase1(k)
    /\ \E k \in At("def") : log[k].sample = sample_count - 1 /\ ~InPhase1(k)

\* C20: the duration handed to delay() in the final drain is never negative
\* and never zero, whatever the clock advanced between the test of line 297
\* and the reading of line 298.
C20_PositiveWait == \A k \in At("delay") : log[k].val > 0

\* C21: due times do not decrease with the sample index, and the
\* neutralizations are done in ascending sample index, over the phase 1 drains
\* and the final drain together, equal due times of consecutive samples
\* included.
C21_DeferredInSampleOrder ==
    /\ \A a, b \in At("push") :
          log[a].sample < log[b].sample => log[a].val <= log[b].val
    /\ \A a, b \in At("def") : a < b => log[a].sample < log[b].sample
====
